---- MODULE Spec2Model ----
(***************************************************************************)
(* A model of grab_app.py: the Streamlit food-ordering application.        *)
(*                                                                         *)
(* Streamlit re-executes the whole script on every interaction, so every   *)
(* handler starts from what load_data reads from the three JSON files and  *)
(* ends with what save_data wrote: the files are the program state that    *)
(* survives between two handlers, together with st.session_state.          *)
(* Money is kept in cents (12.0 is 1200).  Order ids are the strings of    *)
(* the dict keys, kept as sequences of decimal digits ("10" is <<1, 0>>).  *)
(* An optional value (Python None or a value) is <<>> or <<value>>.        *)
(***************************************************************************)
EXTENDS Integers, Sequences, FiniteSets, TLC

VARIABLES users_file, orders_file, ratings_file,
          logged_in, username, role, step, cart,
          failures,
          runs,       \* the script runs in flight, with what each has loaded
          calls,      \* history: the "Add to Cart" calls that built the cart
          adders,     \* history: who added to each line of the cart
          issued      \* history: the orders the checkouts have saved

vars == <<users_file, orders_file, ratings_file,
          logged_in, username, role, step, cart, failures,
          runs, calls, adders, issued>>

session == <<logged_in, username, role, step, cart>>

\* What the runs that finish in one step, and keep no history, leave alone.
aux == <<runs, calls, adders, issued>>

(***************************************************************************)
(* Bounds of the model.                                                    *)
(***************************************************************************)
MaxOrders == 2     \* orders created in one run of the lifecycle
MaxCart == 2       \* lines in the cart
MaxQty == 2        \* quantity of one cart line
MaxFailures == 1   \* failed writes in one run
MaxRuns == 1       \* script runs of one session that race with another's
BaseOrders == 9    \* orders already in the store of a running shop

(***************************************************************************)
(* Optional values.                                                        *)
(***************************************************************************)
None == <<>>

Some(v) == <<v>>

(***************************************************************************)
(* Python dicts, as functions.                                             *)
(***************************************************************************)
EmptyDict == [k \in {} |-> 0]

Put(d, k, v) == (k :> v) @@ d

SetMax(S) == CHOOSE m \in S : \A x \in S : x <= m

(***************************************************************************)
(* str(n) and int(k) on order ids, and Python's order on strings.          *)
(***************************************************************************)
RECURSIVE str(_)
str(n) == IF n < 10 THEN <<n>> ELSE Append(str(n \div 10), n % 10)

RECURSIVE int(_)
int(k) == IF Len(k) = 0 THEN 0
          ELSE 10 * int(SubSeq(k, 1, Len(k) - 1)) + k[Len(k)]

\* a < b for two strings: the first differing character decides, and a
\* proper prefix is smaller.
RECURSIVE StrLess(_, _)
StrLess(a, b) ==
    IF Len(b) = 0 THEN FALSE
    ELSE IF Len(a) = 0 THEN TRUE
    ELSE IF Head(a) # Head(b) THEN Head(a) < Head(b)
    ELSE StrLess(Tail(a), Tail(b))

(***************************************************************************)
(* The constants of the script.                                            *)
(***************************************************************************)
ROLES == {"Customer", "Driver"}

\* The catalog (a part of it), restaurant -> category -> food -> price.
restaurants ==
    [r \in {"Pizza Place", "Sushi Bar"} |->
        IF r = "Pizza Place"
        THEN [c \in {"Pizza", "Sides"} |->
                IF c = "Pizza" THEN [f \in {"Margherita"} |-> 1200]
                               ELSE [f \in {"Garlic Bread"} |-> 500]]
        ELSE [c \in {"Drinks"} |-> [f \in {"Green Tea"} |-> 300]]]

\* What the three select boxes of the order page can be set to.
Selections ==
    {<<r, c, f>> : r \in DOMAIN restaurants,
                   c \in {"Pizza", "Sides", "Drinks"},
                   f \in {"Margherita", "Garlic Bread", "Green Tea"}}

Menu == {s \in Selections :
            /\ s[2] \in DOMAIN restaurants[s[1]]
            /\ s[3] \in DOMAIN restaurants[s[1]][s[2]]}

\* The selections the lifecycle runs order from: one dish of each restaurant.
DailyMenu == {s \in Menu : s[2] \in {"Pizza", "Drinks"}}

\* The sliders of the rating form run from MinRating to MaxRating.
MinRating == 1
MaxRating == 5

\* The (food, speed, service) values the rating form is submitted with.
RatingInputs ==
    {r \in {<<5, 4, 3>>, <<1, 2, 5>>} :
        \A i \in 1..3 : r[i] \in MinRating..MaxRating}

\* The registered users: what register wrote to users.json.
hash_password(password) == <<"bcrypt", password>>

verify_password(plain_password, hashed_password) ==
    hashed_password = hash_password(plain_password)

RegisteredUsers ==
    [u \in {"alice", "bob", "dave", "erin"} |->
        [password |-> hash_password(u),
         phone |-> IF u \in {"alice", "dave"} THEN "0123456789" ELSE "0198765432",
         role |-> IF u \in {"alice", "bob"} THEN "Customer" ELSE "Driver"]]

(***************************************************************************)
(* load_data and save_data.  A file is absent, holds valid JSON (data), or *)
(* holds something json.load cannot parse ("invalid": an empty or cut-off   *)
(* file, any text that is not JSON), or holds bytes that are not text in   *)
(* the encoding the file is opened with ("undecodable").                   *)
(***************************************************************************)
AbsentFile == [kind |-> "absent", data |-> EmptyDict]

InvalidFile == [kind |-> "invalid", data |-> EmptyDict]

UndecodableFile == [kind |-> "undecodable", data |-> EmptyDict]

\* load_data catches json.JSONDecodeError alone: the UnicodeDecodeError of
\* reading an undecodable file leaves load_data and ends the script run.
load_raises(file) == file.kind = "undecodable"

\* What load_data returns when it returns.
load_data(file) == IF file.kind = "valid" THEN file.data ELSE EmptyDict

save_data(data) == [kind |-> "valid", data |-> data]

\* The module-level load of users and orders.
users == load_data(users_file)

orders == load_data(orders_file)

\* The module-level load of ratings, with the two maps added when missing.
InitRatings(loaded) ==
    [restaurants |-> IF "restaurants" \in DOMAIN loaded
                     THEN loaded.restaurants ELSE EmptyDict,
     drivers |-> IF "drivers" \in DOMAIN loaded
                 THEN loaded.drivers ELSE EmptyDict]

ratings == InitRatings(load_data(ratings_file))

(***************************************************************************)
(* No run in flight and no history.                                        *)
(***************************************************************************)
Sessions == {1, 2}

NoButton == [kind |-> "none", oid |-> <<>>, sel |-> <<>>, rating |-> <<>>]

IdleRun ==
    [pc |-> "idle", count |-> 0, who |-> "", button |-> NoButton,
     orders |-> EmptyDict, ratings |-> EmptyDict, wrote |-> FALSE,
     ids |-> {}]

NoRuns == [p \in Sessions |-> IdleRun]

NoCalls == [adds |-> [sel \in Menu |-> 0], other |-> FALSE]

NoAux ==
    /\ runs = NoRuns
    /\ calls = NoCalls
    /\ adders = <<>>
    /\ issued = EmptyDict

(***************************************************************************)
(* The state after the script's first run: no orders and no ratings yet,   *)
(* nobody logged in, the customer flow at step 1 with an empty cart.       *)
(***************************************************************************)
Init ==
    /\ users_file = save_data(RegisteredUsers)
    /\ orders_file = AbsentFile
    /\ ratings_file = AbsentFile
    /\ logged_in = FALSE
    /\ username = ""
    /\ role = ""
    /\ step = 1
    /\ cart = <<>>
    /\ failures = 0
    /\ NoAux

(***************************************************************************)
(* The sidebar: login and logout.                                          *)
(***************************************************************************)
login(u, password, r) ==
    /\ ~logged_in
    /\ IF /\ u \in DOMAIN users
          /\ verify_password(password, users[u].password)
          /\ users[u].role = r
       THEN /\ logged_in' = TRUE
            /\ username' = u
            /\ role' = r
            /\ UNCHANGED <<step, cart>>
       ELSE UNCHANGED session
    /\ UNCHANGED <<users_file, orders_file, ratings_file, failures>>

logout ==
    /\ logged_in
    /\ logged_in' = FALSE
    /\ username' = ""
    /\ role' = ""
    /\ UNCHANGED <<step, cart>>
    /\ UNCHANGED <<users_file, orders_file, ratings_file, failures>>

(***************************************************************************)
(* The customer page, step 1: the cart.                                    *)
(***************************************************************************)
OnCustomerPage == logged_in /\ role = "Customer"

FindLineOfRestaurant(c, restaurant, food) ==
    LET hits == {i \in 1..Len(c) : c[i].restaurant = restaurant}
    IN IF hits = {} THEN 0 ELSE CHOOSE i \in hits : \A j \in hits : i <= j

\* The cart line "Add to Cart" finds for the selection: the first one with
\* the same food and restaurant, 0 when there is none.
FindLine(c, restaurant, food) ==
    LET hits == {i \in 1..Len(c) :
                    c[i].food = food /\ c[i].restaurant = restaurant}
    IN IF hits = {} THEN 0 ELSE CHOOSE i \in hits : \A j \in hits : i <= j

AddToCart(sel) ==
    LET restaurant == sel[1]
        category == sel[2]
        food == sel[3]
        price == restaurants[restaurant][category][food]
        found == FindLine(cart, restaurant, food)
    IN /\ OnCustomerPage
       /\ step = 1
       /\ cart' = IF found # 0
                  THEN [cart EXCEPT ![found].quantity = @ + 1]
                  ELSE Append(cart, [restaurant |-> restaurant,
                                     category |-> category, food |-> food,
                                     price |-> price, quantity |-> 1])
       /\ UNCHANGED <<logged_in, username, role, step>>
       /\ UNCHANGED <<users_file, orders_file, ratings_file, failures>>

MinusToZero(idx) ==
    /\ OnCustomerPage
    /\ step = 1
    /\ idx \in 1..Len(cart)
    /\ cart' = [cart EXCEPT ![idx].quantity = @ - 1]
    /\ UNCHANGED <<logged_in, username, role, step>>
    /\ UNCHANGED <<users_file, orders_file, ratings_file, failures>>

Minus(idx) ==
    /\ OnCustomerPage
    /\ step = 1
    /\ idx \in 1..Len(cart)
    /\ cart' = IF cart[idx].quantity > 1
               THEN [cart EXCEPT ![idx].quantity = @ - 1]
               ELSE cart
    /\ UNCHANGED <<logged_in, username, role, step>>
    /\ UNCHANGED <<users_file, orders_file, ratings_file, failures>>

Plus(idx) ==
    /\ OnCustomerPage
    /\ step = 1
    /\ idx \in 1..Len(cart)
    /\ cart' = [cart EXCEPT ![idx].quantity = @ + 1]
    /\ UNCHANGED <<logged_in, username, role, step>>
    /\ UNCHANGED <<users_file, orders_file, ratings_file, failures>>

Remove(idx) ==
    /\ OnCustomerPage
    /\ step = 1
    /\ idx \in 1..Len(cart)
    /\ cart' = [i \in 1..(Len(cart) - 1) |->
                    IF i < idx THEN cart[i] ELSE cart[i + 1]]
    /\ UNCHANGED <<logged_in, username, role, step>>
    /\ UNCHANGED <<users_file, orders_file, ratings_file, failures>>

(***************************************************************************)
(* The totals under the cart.  The prices are multiples of half a ringgit, *)
(* so the subtotal is a whole multiple of 50 cents and its 10% and 6% are  *)
(* whole cents: the amounts shown with two decimals are these.             *)
(***************************************************************************)
RECURSIVE Subtotal(_)
Subtotal(c) ==
    IF c = <<>> THEN 0
    ELSE Head(c).price * Head(c).quantity + Subtotal(Tail(c))

ServiceTaxPercent == 10

DeliveryChargePercent == 6

computeTotalsCompounding(c) ==
    LET subtotal == Subtotal(c)
        service_tax == (subtotal * ServiceTaxPercent) \div 100
        delivery_charge ==
            ((subtotal + service_tax) * DeliveryChargePercent) \div 100
    IN [subtotal |-> subtotal, service_tax |-> service_tax,
        delivery_charge |-> delivery_charge,
        total |-> subtotal + service_tax + delivery_charge]

computeTotals(c) ==
    LET subtotal == Subtotal(c)
        service_tax == (subtotal * ServiceTaxPercent) \div 100
        delivery_charge == (subtotal * DeliveryChargePercent) \div 100
    IN [subtotal |-> subtotal, service_tax |-> service_tax,
        delivery_charge |-> delivery_charge,
        total |-> subtotal + service_tax + delivery_charge]

\* "Proceed to Checkout" is shown only under a non-empty cart.  The total it
\* stores in the session is never read again and is not kept here.
ProceedToCheckout ==
    /\ OnCustomerPage
    /\ step = 1
    /\ cart # <<>>
    /\ step' = 2
    /\ UNCHANGED <<logged_in, username, role, cart>>
    /\ UNCHANGED <<users_file, orders_file, ratings_file, failures>>

BackToMenu ==
    /\ OnCustomerPage
    /\ step = 2
    /\ step' = 1
    /\ UNCHANGED <<logged_in, username, role, cart>>
    /\ UNCHANGED <<users_file, orders_file, ratings_file, failures>>

(***************************************************************************)
(* The customer page, step 2: checkout.                                    *)
(***************************************************************************)
\* A variant of LastId: max(orders.keys()) taken on the strings, then int().
LastIdOfGreatestKey(store) ==
    IF DOMAIN store = {} THEN 0
    ELSE int(CHOOSE k \in DOMAIN store :
                \A other \in DOMAIN store : other = k \/ StrLess(other, k))

\* The highest order id of the store, 0 for an empty store.
LastId(store) == SetMax({int(k) : k \in DOMAIN store} \cup {0})

\* A variant of NewOrder: the quantity of the line is not copied.
NewOrderOfOneUnit(item, form) ==
    [customer |-> form.customer, phone |-> form.phone,
     restaurant |-> item.restaurant, category |-> item.category,
     food |-> item.food, price |-> item.price,
     quantity |-> 1, dropoff |-> form.dropoff,
     payment |-> form.payment, tip |-> form.tip, status |-> "pending",
     driver |-> None, rating_food |-> None, rating_speed |-> None,
     rating_service |-> None]

\* The order "Place Order" writes for one cart line.
NewOrder(item, form) ==
    [customer |-> form.customer, phone |-> form.phone,
     restaurant |-> item.restaurant, category |-> item.category,
     food |-> item.food, price |-> item.price,
     quantity |-> item.quantity, dropoff |-> form.dropoff,
     payment |-> form.payment, tip |-> form.tip, status |-> "pending",
     driver |-> None, rating_food |-> None, rating_speed |-> None,
     rating_service |-> None]

\* The loop over the cart: each line takes the next id.
RECURSIVE PlaceLines(_, _, _, _)
PlaceLines(store, last_id, lines, form) ==
    IF lines = <<>> THEN store
    ELSE LET order_id == str(last_id + 1)
         IN PlaceLines(Put(store, order_id, NewOrder(Head(lines), form)),
                       last_id + 1, Tail(lines), form)

DropoffAlwaysGiven(dropoff) == FALSE

\* "if not dropoff": only the empty text fails the validation.
NoDropoff(dropoff) == dropoff = ""

PlaceOrder(dropoff, payment, tip) ==
    /\ OnCustomerPage
    /\ step = 2
    /\ IF NoDropoff(dropoff)
       THEN UNCHANGED <<orders_file, step, cart>>
       ELSE LET form == [customer |-> username,
                         phone |-> users[username].phone,
                         dropoff |-> dropoff, payment |-> payment,
                         tip |-> tip]
            IN /\ orders_file' =
                    save_data(PlaceLines(orders, LastId(orders), cart, form))
               /\ step' = 1
               /\ cart' = <<>>
    /\ UNCHANGED <<logged_in, username, role>>
    /\ UNCHANGED <<users_file, ratings_file, failures>>

(***************************************************************************)
(* The customer page: the customer's orders and the rating form.           *)
(***************************************************************************)
user_orders(store, customer) ==
    {oid \in DOMAIN store : store[oid].customer = customer}

\* sorted(..., key=lambda item: item[0], reverse=True): the keys are strings.
RECURSIVE SortedReverse(_)
SortedReverse(keys) ==
    IF keys = {} THEN <<>>
    ELSE LET top == CHOOSE k \in keys :
                        \A other \in keys : other = k \/ StrLess(other, k)
         IN <<top>> \o SortedReverse(keys \ {top})

\* The ids of the expanders of "Your Orders & Ratings", top to bottom.
ListedOrders(store, customer) == SortedReverse(user_orders(store, customer))

\* Variants of CanRate: the form shown for every completed order, and for
\* every unrated order.
CanRateCompleted(o) == o.status = "completed"

CanRateUnrated(o) == o.rating_food = None

\* The rating form is shown for an order that is completed and not rated.
CanRate(o) == o.status = "completed" /\ o.rating_food = None

RecordRestaurantRatingUncounted(agg, restaurant, rating_food) ==
    LET r == IF restaurant \in DOMAIN agg.restaurants
             THEN agg.restaurants[restaurant]
             ELSE [rating_sum |-> 0, rating_count |-> 0]
    IN [agg EXCEPT !.restaurants =
            Put(agg.restaurants, restaurant,
                [rating_sum |-> r.rating_sum + rating_food,
                 rating_count |-> r.rating_count])]

RecordRestaurantRating(agg, restaurant, rating_food) ==
    LET r == IF restaurant \in DOMAIN agg.restaurants
             THEN agg.restaurants[restaurant]
             ELSE [rating_sum |-> 0, rating_count |-> 0]
    IN [agg EXCEPT !.restaurants =
            Put(agg.restaurants, restaurant,
                [rating_sum |-> r.rating_sum + rating_food,
                 rating_count |-> r.rating_count + 1])]

\* A variant of RecordDriverRating: speed and service added to each other's sum.
RecordDriverRatingSwapped(agg, driver, rating_food, rating_speed, rating_service) ==
    LET d == IF driver \in DOMAIN agg.drivers
             THEN agg.drivers[driver]
             ELSE [rating_sum |-> 0, rating_count |-> 0,
                   speed_sum |-> 0, service_sum |-> 0]
    IN [agg EXCEPT !.drivers =
            Put(agg.drivers, driver,
                [rating_sum |-> d.rating_sum + rating_food,
                 rating_count |-> d.rating_count + 1,
                 speed_sum |-> d.speed_sum + rating_service,
                 service_sum |-> d.service_sum + rating_speed])]

RecordDriverRating(agg, driver, rating_food, rating_speed, rating_service) ==
    LET d == IF driver \in DOMAIN agg.drivers
             THEN agg.drivers[driver]
             ELSE [rating_sum |-> 0, rating_count |-> 0,
                   speed_sum |-> 0, service_sum |-> 0]
    IN [agg EXCEPT !.drivers =
            Put(agg.drivers, driver,
                [rating_sum |-> d.rating_sum + rating_food,
                 rating_count |-> d.rating_count + 1,
                 speed_sum |-> d.speed_sum + rating_speed,
                 service_sum |-> d.service_sum + rating_service])]

\* The order with the three slider values written to it.
RatedOrder(o, rating) ==
    [o EXCEPT !.rating_food = Some(rating[1]),
              !.rating_speed = Some(rating[2]),
              !.rating_service = Some(rating[3])]

\* The rating store with the rating of order o added.
RatedAggregates(agg, o, rating) ==
    LET with_restaurant == RecordRestaurantRating(agg, o.restaurant, rating[1])
    IN IF o.driver # None /\ o.driver # Some("")
       THEN RecordDriverRating(with_restaurant, o.driver[1],
                               rating[1], rating[2], rating[3])
       ELSE with_restaurant

\* dict.get: the value under the key, None without it.
Get(d, k) == IF k \in DOMAIN d THEN Some(d[k]) ELSE None

\* The average is shown only for an aggregate that exists and has a count
\* above zero.
HasRatings(found) == found # None /\ found[1].rating_count > 0

\* A quotient the page shows, kept as numerator over denominator.
Quotient(num, den) == [num |-> num, den |-> den]

\* The average food rating shown under the restaurant, None when not shown.
RestaurantAverage(agg, restaurant) ==
    LET r_rating == Get(agg.restaurants, restaurant)
    IN IF HasRatings(r_rating)
       THEN Some(Quotient(r_rating[1].rating_sum, r_rating[1].rating_count))
       ELSE None

\* The three averages shown on the driver dashboard, None when not shown.
DriverAverages(agg, driver) ==
    LET d_rating == Get(agg.drivers, driver)
    IN IF HasRatings(d_rating)
       THEN Some([avg_food |-> Quotient(d_rating[1].rating_sum,
                                        d_rating[1].rating_count),
                  avg_speed |-> Quotient(d_rating[1].speed_sum,
                                         d_rating[1].rating_count),
                  avg_service |-> Quotient(d_rating[1].service_sum,
                                           d_rating[1].rating_count)])
       ELSE None

\* "Submit Rating" on the form of order oid; both files are written.
SubmitRating(oid, rating) ==
    /\ OnCustomerPage
    /\ oid \in user_orders(orders, username)
    /\ IF CanRate(orders[oid])
       THEN /\ ratings_file' =
                 save_data(RatedAggregates(ratings, orders[oid], rating))
            /\ orders_file' =
                 save_data([orders EXCEPT ![oid] = RatedOrder(@, rating)])
       ELSE UNCHANGED <<orders_file, ratings_file>>
    /\ UNCHANGED <<users_file, failures>>
    /\ UNCHANGED session

\* "Submit Rating" when the run ends between the two save_data calls (the
\* second write raises, or the process is stopped): ratings.json is written,
\* orders.json is not.
SubmitRatingInterrupted(oid, rating) ==
    /\ OnCustomerPage
    /\ oid \in user_orders(orders, username)
    /\ CanRate(orders[oid])
    /\ ratings_file' =
         save_data(RatedAggregates(ratings, orders[oid], rating))
    /\ failures' = failures + 1
    /\ UNCHANGED <<users_file, orders_file>>
    /\ UNCHANGED session

(***************************************************************************)
(* The driver page.                                                        *)
(***************************************************************************)
OnDriverPage == logged_in /\ role = "Driver"

\* Variants of IsActiveOrderOf: every order not yet completed, and every
\* claimed order whoever claimed it.
IsOpenOrder(o, driver) == o.status # "completed"

IsClaimedOrder(o, driver) == o.status = "claimed"

\* "Your Claimed Orders": the orders of this driver that are claimed.
IsActiveOrderOf(o, driver) == o.driver = Some(driver) /\ o.status = "claimed"

\* A variant of IsPending: claimed orders stay on offer.
IsUndelivered(o) == o.status # "completed"

\* "Available Orders to Claim".
IsPending(o) == o.status = "pending"

CompleteOrder(oid) ==
    /\ OnDriverPage
    /\ oid \in DOMAIN orders
    /\ IF IsActiveOrderOf(orders[oid], username)
       THEN orders_file' =
                save_data([orders EXCEPT ![oid].status = "completed"])
       ELSE UNCHANGED orders_file
    /\ UNCHANGED <<users_file, ratings_file, failures>>
    /\ UNCHANGED session

ClaimOrder(oid) ==
    /\ OnDriverPage
    /\ oid \in DOMAIN orders
    /\ IF IsPending(orders[oid])
       THEN orders_file' =
                save_data([orders EXCEPT ![oid].driver = Some(username),
                                         ![oid].status = "claimed"])
       ELSE UNCHANGED orders_file
    /\ UNCHANGED <<users_file, ratings_file, failures>>
    /\ UNCHANGED session

(***************************************************************************)
(* The inputs of the forms, and the guards that keep the runs bounded.     *)
(***************************************************************************)
\* The names typed into the login form: the registered users and a stranger.
LoginNames == DOMAIN RegisteredUsers \cup {"mallory"}

\* The people of the lifecycle runs: one customer, both drivers, the stranger.
LifecycleNames == LoginNames \ {"bob"}

Passwords(u) == {u, "guess"}

Dropoffs == {"", "KLCC"}

DefaultTip == 200

NumOrders == Cardinality(DOMAIN orders)

\* A cart of at most MaxCart lines, each of at most units units.
RoomInCart(sel, units) ==
    LET found == FindLine(cart, sel[1], sel[3])
    IN IF found = 0 THEN Len(cart) < MaxCart
       ELSE cart[found].quantity < units

RoomForPlus(idx) == idx \in 1..Len(cart) /\ cart[idx].quantity < MaxQty

Sidebar(names) ==
    \/ \E u \in names : \E p \in Passwords(u) : \E r \in ROLES :
            login(u, p, r) /\ UNCHANGED aux
    \/ logout /\ UNCHANGED aux

\* Filling the cart with lines of at most units units, and the two steps.
Fill(units) ==
    \/ \E sel \in DailyMenu :
            RoomInCart(sel, units) /\ AddToCart(sel) /\ UNCHANGED aux
    \/ \E idx \in 1..MaxCart : Remove(idx) /\ UNCHANGED aux
    \/ ProceedToCheckout /\ UNCHANGED aux
    \/ BackToMenu /\ UNCHANGED aux

Adjust ==
    \/ \E idx \in 1..MaxCart : Minus(idx) /\ UNCHANGED aux
    \/ \E idx \in 1..MaxCart :
            RoomForPlus(idx) /\ Plus(idx) /\ UNCHANGED aux

Browse(names) == Sidebar(names) \/ Fill(MaxQty) \/ Adjust

Deliver ==
    \/ \E oid \in DOMAIN orders : \E rating \in RatingInputs :
            SubmitRating(oid, rating) /\ UNCHANGED aux
    \/ \E oid \in DOMAIN orders : CompleteOrder(oid) /\ UNCHANGED aux
    \/ \E oid \in DOMAIN orders : ClaimOrder(oid) /\ UNCHANGED aux

Checkout(cap) ==
    \E dropoff \in Dropoffs :
        /\ NumOrders + Len(cart) <= cap
        /\ PlaceOrder(dropoff, "Cash", DefaultTip)
        /\ UNCHANGED aux

(***************************************************************************)
(* Spec: the lifecycle of the orders from an empty shop, every write       *)
(* succeeding.  The customer orders one unit of a dish; no handler of the  *)
(* lifecycle reads the quantity.                                           *)
(***************************************************************************)
Next == Sidebar(LifecycleNames) \/ Fill(1) \/ Checkout(MaxOrders) \/ Deliver

Spec == Init /\ [][Next]_vars

(***************************************************************************)
(* SpecFail: the same, where a run may end between the two writes of       *)
(* "Submit Rating".                                                        *)
(***************************************************************************)
Interrupt ==
    \E oid \in DOMAIN orders : \E rating \in RatingInputs :
        /\ failures < MaxFailures
        /\ SubmitRatingInterrupted(oid, rating)
        /\ UNCHANGED aux

NextFail == Next \/ Interrupt

SpecFail == Init /\ [][NextFail]_vars

(***************************************************************************)
(* SpecStore: the customer side of a shop whose store is empty or already  *)
(* holds BaseOrders orders, so that checkouts take the ids from one digit *)
(* to two.                                                                 *)
(***************************************************************************)
\* The i-th order of the running shop: customers and dishes alternate, and
\* the orders are at the three stages of delivery.  None is rated yet.
OldOrder(i) ==
    LET sel == IF i % 2 = 1 THEN <<"Pizza Place", "Pizza", "Margherita">>
               ELSE <<"Sushi Bar", "Drinks", "Green Tea">>
        customer == IF i % 2 = 1 THEN "alice" ELSE "bob"
        fresh == NewOrder([restaurant |-> sel[1], category |-> sel[2],
                           food |-> sel[3],
                           price |-> restaurants[sel[1]][sel[2]][sel[3]],
                           quantity |-> 1],
                          [customer |-> customer,
                           phone |-> RegisteredUsers[customer].phone,
                           dropoff |-> "KLCC", payment |-> "Cash",
                           tip |-> DefaultTip])
    IN CASE i % 3 = 0 -> fresh
         [] i % 3 = 1 -> [fresh EXCEPT !.status = "claimed",
                                       !.driver = Some("dave")]
         [] OTHER -> [fresh EXCEPT !.status = "completed",
                                   !.driver = Some("erin")]

OrderBook(n) == [k \in {str(i) : i \in 1..n} |-> OldOrder(int(k))]

InitStore ==
    /\ users_file = save_data(RegisteredUsers)
    /\ \E n \in {0, BaseOrders} :
            orders_file = IF n = 0 THEN AbsentFile
                          ELSE save_data(OrderBook(n))
    /\ ratings_file = AbsentFile
    /\ logged_in = FALSE
    /\ username = ""
    /\ role = ""
    /\ step = 1
    /\ cart = <<>>
    /\ failures = 0
    /\ NoAux

\* MaxOrders new orders on the empty store and on the running one.
StoreCap ==
    IF NumOrders < BaseOrders THEN MaxOrders
    ELSE BaseOrders + MaxOrders

NextStore == Browse(LoginNames) \/ Checkout(StoreCap)

SpecStore == InitStore /\ [][NextStore]_vars

(***************************************************************************)
(* The cart of one customer over the whole menu, with the history of the   *)
(* "Add to Cart" calls since the cart was last empty.  The history stops   *)
(* counting once another button changed the cart.  The runs go up to the   *)
(* first checkout of the shop and the cart built after it.                 *)
(***************************************************************************)
CartNames == {"alice"}

Edited == [adds |-> [sel \in Menu |-> 0], other |-> TRUE]

Counted(sel) ==
    IF calls.other THEN calls ELSE [calls EXCEPT !.adds[sel] = @ + 1]

Shop ==
    \/ \E sel \in Menu :
            /\ RoomInCart(sel, MaxQty)
            /\ AddToCart(sel)
            /\ calls' = Counted(sel)
            /\ UNCHANGED <<runs, adders, issued>>
    \/ \E idx \in 1..MaxCart :
            /\ Minus(idx)
            /\ calls' = Edited
            /\ UNCHANGED <<runs, adders, issued>>
    \/ \E idx \in 1..MaxCart :
            /\ RoomForPlus(idx)
            /\ Plus(idx)
            /\ calls' = Edited
            /\ UNCHANGED <<runs, adders, issued>>
    \/ \E idx \in 1..MaxCart :
            /\ Remove(idx)
            /\ calls' = IF cart' = <<>> THEN NoCalls ELSE Edited
            /\ UNCHANGED <<runs, adders, issued>>
    \/ ProceedToCheckout /\ UNCHANGED aux
    \/ BackToMenu /\ UNCHANGED aux
    \/ \E dropoff \in Dropoffs :
            /\ NumOrders = 0
            /\ PlaceOrder(dropoff, "Cash", DefaultTip)
            /\ calls' = IF NoDropoff(dropoff) THEN calls ELSE NoCalls
            /\ UNCHANGED <<runs, adders, issued>>

NextCart == Sidebar(CartNames) \/ Shop

SpecCart == Init /\ [][NextCart]_vars

(***************************************************************************)
(* The files as the script may find them.  Each of the three starts valid, *)
(* absent, unparseable or undecodable; orders.json may later be deleted,   *)
(* or left cut off by a save_data that stopped after open(file, "w").  A   *)
(* run whose module-level load raises never reaches a page.  The          *)
(* checkouts keep the history of what they saved.                          *)
(***************************************************************************)
FilesHolding(data) ==
    {save_data(data), AbsentFile, InvalidFile, UndecodableFile}

InitFiles ==
    /\ users_file \in FilesHolding(RegisteredUsers)
    /\ orders_file \in FilesHolding(EmptyDict)
    /\ ratings_file \in FilesHolding(EmptyDict)
    /\ logged_in = FALSE
    /\ username = ""
    /\ role = ""
    /\ step = 1
    /\ cart = <<>>
    /\ failures = 0
    /\ NoAux

ScriptLoads ==
    /\ ~load_raises(users_file)
    /\ ~load_raises(orders_file)
    /\ ~load_raises(ratings_file)

\* What identifies an order that was saved: whose it is and its cart line.
LineOf(o) ==
    [customer |-> o.customer, restaurant |-> o.restaurant,
     food |-> o.food, quantity |-> o.quantity]

CheckoutIssued(cap) ==
    \E dropoff \in Dropoffs :
        /\ NumOrders + Len(cart) <= cap
        /\ PlaceOrder(dropoff, "Cash", DefaultTip)
        /\ issued' = issued @@ [k \in DOMAIN orders' \ DOMAIN orders |->
                                    LineOf(orders'[k])]
        /\ UNCHANGED <<runs, calls, adders>>

Damage ==
    /\ failures < MaxFailures
    /\ orders_file.kind = "valid"
    /\ orders_file' \in {AbsentFile, InvalidFile}
    /\ failures' = failures + 1
    /\ UNCHANGED <<users_file, ratings_file>>
    /\ UNCHANGED session
    /\ UNCHANGED aux

\* One customer and one driver.
FilesNames == {"alice", "dave"}

NextFiles ==
    \/ ScriptLoads /\ Sidebar(FilesNames)
    \/ ScriptLoads /\ Fill(1)
    \/ ScriptLoads /\ CheckoutIssued(MaxOrders)
    \/ ScriptLoads /\ Deliver
    \/ Damage

SpecFiles == InitFiles /\ [][NextFiles]_vars

(***************************************************************************)
(* Two browser sessions.  Every click starts a run of the script for its   *)
(* session: the run loads the files at its top, and further down the      *)
(* handler of the button changes what was loaded and saves it whole.  The  *)
(* runs of the two sessions are not ordered against each other, and        *)
(* nothing locks the files between the load of a run and its save.         *)
(***************************************************************************)
PlaceButton(sel) ==
    [kind |-> "place", oid |-> <<>>, sel |-> sel, rating |-> <<>>]

RateButton(oid, rating) ==
    [kind |-> "rate", oid |-> oid, sel |-> <<>>, rating |-> rating]

CompleteButton(oid) ==
    [kind |-> "complete", oid |-> oid, sel |-> <<>>, rating |-> <<>>]

ClaimButton(oid) ==
    [kind |-> "claim", oid |-> oid, sel |-> <<>>, rating |-> <<>>]

\* The buttons of the page of user who, over the store the run loaded.
Buttons(who, store) ==
    IF RegisteredUsers[who].role = "Customer"
    THEN {PlaceButton(sel) : sel \in DailyMenu}
            \cup {RateButton(oid, rating) :
                        oid \in user_orders(store, who),
                        rating \in RatingInputs}
    ELSE {CompleteButton(oid) : oid \in DOMAIN store}
            \cup {ClaimButton(oid) : oid \in DOMAIN store}

\* The store and aggregates a run leaves in memory after its handler, from
\* what it loaded; wrote tells whether the handler ran and saved.
Handled(r) ==
    LET b == r.button
        same == [orders |-> r.orders, ratings |-> r.ratings, wrote |-> FALSE]
    IN CASE b.kind = "place" ->
                LET item == [restaurant |-> b.sel[1], category |-> b.sel[2],
                             food |-> b.sel[3],
                             price |-> restaurants[b.sel[1]][b.sel[2]][b.sel[3]],
                             quantity |-> 1]
                    form == [customer |-> r.who,
                             phone |-> users[r.who].phone,
                             dropoff |-> "KLCC", payment |-> "Cash",
                             tip |-> DefaultTip]
                IN [orders |-> PlaceLines(r.orders, LastId(r.orders),
                                          <<item>>, form),
                    ratings |-> r.ratings, wrote |-> TRUE]
         [] b.kind = "rate" ->
                IF CanRate(r.orders[b.oid])
                THEN [orders |-> [r.orders EXCEPT
                                    ![b.oid] = RatedOrder(@, b.rating)],
                      ratings |-> RatedAggregates(r.ratings, r.orders[b.oid],
                                                  b.rating),
                      wrote |-> TRUE]
                ELSE same
         [] b.kind = "complete" ->
                IF IsActiveOrderOf(r.orders[b.oid], r.who)
                THEN [orders |-> [r.orders EXCEPT
                                    ![b.oid].status = "completed"],
                      ratings |-> r.ratings, wrote |-> TRUE]
                ELSE same
         [] b.kind = "claim" ->
                IF IsPending(r.orders[b.oid])
                THEN [orders |-> [r.orders EXCEPT
                                    ![b.oid].driver = Some(r.who),
                                    ![b.oid].status = "claimed"],
                      ratings |-> r.ratings, wrote |-> TRUE]
                ELSE same

\* The top of a run: the click that started it, and the module-level load.
LoadRun(p) ==
    /\ runs[p].pc # "loaded"
    /\ runs[p].count < MaxRuns
    /\ \E who \in DOMAIN RegisteredUsers : \E b \in Buttons(who, orders) :
            runs' = [runs EXCEPT ![p] =
                        [pc |-> "loaded", count |-> runs[p].count + 1,
                         who |-> who, button |-> b, orders |-> orders,
                         ratings |-> ratings, wrote |-> FALSE, ids |-> {}]]
    /\ UNCHANGED <<users_file, orders_file, ratings_file, failures>>
    /\ UNCHANGED session
    /\ UNCHANGED <<calls, adders, issued>>

\* The rest of the run: the handler of the button and its save_data calls.
FinishRun(p) ==
    LET r == runs[p]
        h == Handled(r)
    IN /\ r.pc = "loaded"
       /\ orders_file' = IF h.wrote THEN save_data(h.orders) ELSE orders_file
       /\ ratings_file' = IF h.wrote /\ r.button.kind = "rate"
                          THEN save_data(h.ratings) ELSE ratings_file
       /\ runs' = [runs EXCEPT ![p].pc = "done", ![p].wrote = h.wrote,
                               ![p].orders = h.orders,
                               ![p].ratings = h.ratings,
                               ![p].ids = DOMAIN h.orders \ DOMAIN r.orders]
       /\ UNCHANGED <<users_file, failures>>
       /\ UNCHANGED session
       /\ UNCHANGED <<calls, adders, issued>>

\* A shop with one claimed, one completed and one pending order.
RaceOrders == 3

InitRace ==
    /\ users_file = save_data(RegisteredUsers)
    /\ orders_file = save_data(OrderBook(RaceOrders))
    /\ ratings_file = AbsentFile
    /\ logged_in = FALSE
    /\ username = ""
    /\ role = ""
    /\ step = 1
    /\ cart = <<>>
    /\ failures = 0
    /\ NoAux

NextRace ==
    \/ \E p \in Sessions : LoadRun(p)
    \/ \E p \in Sessions : FinishRun(p)

SpecRace == InitRace /\ [][NextRace]_vars

(***************************************************************************)
(* One browser session used by two customers in turn, with the history of  *)
(* who was logged in when each line of the cart was added to.              *)
(***************************************************************************)
Customers ==
    {u \in DOMAIN RegisteredUsers : RegisteredUsers[u].role = "Customer"}

\* The history after "Add to Cart": the user joins the adders of the line
\* the selection went to.
AddedBy(sel) ==
    LET found == FindLine(cart, sel[1], sel[3])
    IN IF found # 0 THEN [adders EXCEPT ![found] = @ \cup {username}]
       ELSE Append(adders, {username})

\* The history after "Remove" on line idx.
Without(idx) ==
    [i \in 1..(Len(adders) - 1) |->
        IF i < idx THEN adders[i] ELSE adders[i + 1]]

SharedBrowser ==
    \/ \E sel \in DailyMenu :
            /\ RoomInCart(sel, MaxQty)
            /\ AddToCart(sel)
            /\ adders' = AddedBy(sel)
            /\ UNCHANGED <<runs, calls, issued>>
    \/ \E idx \in 1..MaxCart :
            /\ Remove(idx)
            /\ adders' = Without(idx)
            /\ UNCHANGED <<runs, calls, issued>>
    \/ ProceedToCheckout /\ UNCHANGED aux
    \/ BackToMenu /\ UNCHANGED aux
    \/ \E dropoff \in Dropoffs :
            /\ NumOrders + Len(cart) <= MaxOrders
            /\ PlaceOrder(dropoff, "Cash", DefaultTip)
            /\ adders' = IF NoDropoff(dropoff) THEN adders ELSE <<>>
            /\ UNCHANGED <<runs, calls, issued>>

NextShared == Sidebar(Customers) \/ SharedBrowser

SpecShared == Init /\ [][NextShared]_vars

(***************************************************************************)
(* Properties.                                                             *)
(***************************************************************************)
NumericIds(store) == {int(k) : k \in DOMAIN store}

\* The highest numeric id of a store, 0 when it holds no order.
HighestId(store) ==
    IF DOMAIN store = {} THEN 0
    ELSE CHOOSE m \in NumericIds(store) : \A n \in NumericIds(store) : n <= m

IsCheckout ==
    \E dropoff \in Dropoffs \ {""} : PlaceOrder(dropoff, "Cash", DefaultTip)

\* What a step that is a checkout of the cart does to the order ids.
CheckoutAllocatesFreshIds ==
    LET before == DOMAIN orders
        after == DOMAIN orders'
        added == after \ before
        top == HighestId(orders)
    IN /\ before \subseteq after
       /\ \A k \in before : orders'[k] = orders[k]
       /\ Cardinality(added) = Len(cart)
       /\ Cardinality(NumericIds(orders')) = Cardinality(after)
       /\ \A k \in added : \A old \in before : int(k) > int(old)
       /\ added = {str(top + i) : i \in 1..Len(cart)}
       /\ \A i \in 1..Len(cart) :
            /\ str(top + i) \in after
            /\ orders'[str(top + i)].food = cart[i].food
            /\ orders'[str(top + i)].restaurant = cart[i].restaurant

\* C1: a checkout of a non-empty cart with a non-empty dropoff adds exactly
\* len(cart) orders whose numeric ids are distinct, greater than every id the
\* store held, and are max+1, max+2, ... in cart order (1, 2, ... on an empty
\* store); and no step but such a checkout adds an order.
C1_CheckoutIds ==
    [][/\ (IsCheckout /\ cart # <<>>) => CheckoutAllocatesFreshIds
       /\ (DOMAIN orders' # DOMAIN orders) => (IsCheckout /\ cart # <<>>)]_vars

\* Two lines of one customer were written beyond a store of nine orders.
C1_Witness ==
    /\ {str(10), str(11)} \subseteq DOMAIN orders
    /\ orders[str(10)].customer = orders[str(11)].customer
    /\ orders[str(10)].food # orders[str(11)].food
    /\ cart = <<>>

\* C7: the orders page lists exactly the orders of the logged-in customer,
\* by descending numeric order id.
C7_ListedNewestFirst ==
    OnCustomerPage =>
        LET listed == ListedOrders(orders, username)
        IN /\ {listed[i] : i \in 1..Len(listed)} =
                {oid \in DOMAIN orders : orders[oid].customer = username}
           /\ Len(listed) = Cardinality(user_orders(orders, username))
           /\ \A i \in 1..Len(listed) : \A j \in 1..Len(listed) :
                i < j => int(listed[i]) > int(listed[j])

\* The order a checkout must write for cart line item of the customer.
IsOrderOfLine(o, item, customer) ==
    /\ o.customer = customer
    /\ o.restaurant = item.restaurant
    /\ o.category = item.category
    /\ o.food = item.food
    /\ o.price = item.price
    /\ o.quantity = item.quantity
    /\ o.status = "pending"
    /\ o.driver = None
    /\ o.rating_food = None
    /\ o.rating_speed = None
    /\ o.rating_service = None

LinesWrittenAndSaved ==
    LET added == DOMAIN orders' \ DOMAIN orders
        top == HighestId(orders)
    IN /\ orders_file'.kind = "valid"
       /\ Cardinality(added) = Len(cart)
       /\ \A i \in 1..Len(cart) :
            /\ str(top + i) \in added
            /\ IsOrderOfLine(orders_file'.data[str(top + i)], cart[i], username)

\* C10: a successful checkout writes one pending, unclaimed, unrated order
\* per cart line, in cart order, with the line's restaurant, category, food,
\* price and whole quantity; the cart of the checkout step is emptied only in
\* a step that has saved all its lines, and orders appear in no other step.
C10_OneOrderPerLine ==
    [][/\ (IsCheckout /\ cart # <<>>) => (LinesWrittenAndSaved /\ cart' = <<>>)
       /\ (step = 2 /\ cart' # cart) => (LinesWrittenAndSaved /\ cart' = <<>>)
       /\ (DOMAIN orders' # DOMAIN orders) =>
            (LinesWrittenAndSaved /\ cart' = <<>>)]_vars

\* A two-line cart, one line of quantity two, was ordered on the empty store.
C10_Witness ==
    /\ DOMAIN orders = {str(1), str(2)}
    /\ orders[str(1)].customer = orders[str(2)].customer
    /\ orders[str(1)].quantity = 2
    /\ orders[str(2)].quantity = 1
    /\ orders[str(1)].restaurant = "Sushi Bar"
    /\ cart = <<>>
    /\ step = 1

\* C2: claiming a pending order makes it claimed with the claiming driver as
\* its driver and changes nothing else; a claim of an order that is not
\* pending (by the same or another driver) changes neither store; and an order
\* that is no longer pending never becomes pending again, so every later
\* claim of it is such a rejected claim.
C2_ClaimOnce ==
    [][\A oid \in DOMAIN orders :
        /\ (ClaimOrder(oid) /\ orders[oid].status = "pending") =>
              /\ orders' = [orders EXCEPT ![oid].status = "claimed",
                                          ![oid].driver = Some(username)]
              /\ UNCHANGED ratings_file
        /\ (ClaimOrder(oid) /\ orders[oid].status # "pending") =>
              UNCHANGED <<orders_file, ratings_file>>
        /\ orders[oid].status # "pending" =>
              /\ oid \in DOMAIN orders'
              /\ orders'[oid].status # "pending"]_vars

\* An order claimed by dave is in the store while erin is on the driver page.
C2_Witness ==
    /\ OnDriverPage
    /\ username = "erin"
    /\ \E oid \in DOMAIN orders :
          /\ orders[oid].status = "claimed"
          /\ orders[oid].driver = Some("dave")

\* C3: in every step every order stays in the store and its status stays the
\* same or goes from pending to claimed or from claimed to completed; a
\* driver once set stays the same driver; a new order starts pending.
C3_StatusOnlyAdvances ==
    [][/\ \A oid \in DOMAIN orders :
            /\ oid \in DOMAIN orders'
            /\ \/ orders'[oid].status = orders[oid].status
               \/ /\ orders[oid].status = "pending"
                  /\ orders'[oid].status = "claimed"
               \/ /\ orders[oid].status = "claimed"
                  /\ orders'[oid].status = "completed"
            /\ orders[oid].driver # None =>
                  orders'[oid].driver = orders[oid].driver
       /\ \A oid \in DOMAIN orders' \ DOMAIN orders :
            orders'[oid].status = "pending"]_vars

\* One order went through the whole lifecycle while another is still pending.
C3_Witness ==
    /\ \E oid \in DOMAIN orders :
          /\ orders[oid].status = "completed"
          /\ orders[oid].driver = Some("erin")
          /\ orders[oid].rating_food # None
    /\ \E oid \in DOMAIN orders : orders[oid].status = "pending"

RatingFields(o) == <<o.rating_food, o.rating_speed, o.rating_service>>

\* C4: the rating fields of an order change only in a step that starts with
\* the order completed and unrated; a "Submit Rating" on an order that is
\* already rated changes neither the orders nor any aggregate; and the rating
\* store changes only in a step that rates an order.
C4_RatingWrittenOnce ==
    [][/\ \A oid \in DOMAIN orders :
            /\ oid \in DOMAIN orders'
            /\ RatingFields(orders'[oid]) # RatingFields(orders[oid]) =>
                  /\ orders[oid].status = "completed"
                  /\ orders[oid].rating_food = None
            /\ orders[oid].rating_food # None =>
                  \A rating \in RatingInputs :
                      SubmitRating(oid, rating) =>
                          UNCHANGED <<orders_file, ratings_file>>
       /\ ratings_file' # ratings_file =>
            \E oid \in DOMAIN orders :
                /\ orders[oid].rating_food = None
                /\ orders'[oid].rating_food # None]_vars

\* The owner of a rated order is on the customer page, where a second
\* "Submit Rating" for it can arrive.
C4_Witness ==
    /\ OnCustomerPage
    /\ \E oid \in user_orders(orders, username) :
          orders[oid].rating_food # None
    /\ DOMAIN ratings.drivers # {}

\* C5: in every state, for every order: the driver is present exactly when
\* the status is claimed or completed; the three rating fields are all
\* absent or all present; a present rating is an integer in 1..5 and the
\* order is then completed.
C5_OrderInvariant ==
    \A oid \in DOMAIN orders :
        LET o == orders[oid]
        IN /\ o.status \in {"pending", "claimed", "completed"}
           /\ (o.driver # None) <=> (o.status \in {"claimed", "completed"})
           /\ \/ RatingFields(o) = <<None, None, None>>
              \/ /\ \A i \in 1..3 :
                        /\ Len(RatingFields(o)[i]) = 1
                        /\ RatingFields(o)[i][1] \in 1..5
                 /\ o.status = "completed"

\* A rated order and a claimed one are in the store together.
C5_Witness ==
    /\ \E oid \in DOMAIN orders : orders[oid].rating_service = Some(5)
    /\ \E oid \in DOMAIN orders :
          /\ orders[oid].status = "claimed"
          /\ orders[oid].driver = Some("dave")

RECURSIVE SumOfField(_, _, _)
SumOfField(store, oids, fld) ==
    IF oids = {} THEN 0
    ELSE LET oid == CHOOSE x \in oids : TRUE
         IN store[oid][fld][1] + SumOfField(store, oids \ {oid}, fld)

RatedOrders(store) == {oid \in DOMAIN store : store[oid].rating_food # None}

\* C6: for every restaurant the aggregate counts the rated orders of the
\* restaurant and sums their food ratings; for every driver the aggregate
\* counts the rated orders the driver delivered and sums their food, speed
\* and service ratings; without a rated order there is no aggregate.
C6_AggregatesMatchOrders ==
    /\ \A r \in DOMAIN restaurants \cup DOMAIN ratings.restaurants :
          LET rated == {oid \in RatedOrders(orders) :
                            orders[oid].restaurant = r}
          IN IF rated = {} THEN r \notin DOMAIN ratings.restaurants
             ELSE /\ r \in DOMAIN ratings.restaurants
                  /\ ratings.restaurants[r].rating_count = Cardinality(rated)
                  /\ ratings.restaurants[r].rating_sum =
                        SumOfField(orders, rated, "rating_food")
    /\ \A d \in DOMAIN users \cup DOMAIN ratings.drivers :
          LET rated == {oid \in RatedOrders(orders) :
                            orders[oid].driver = Some(d)}
          IN IF rated = {} THEN d \notin DOMAIN ratings.drivers
             ELSE /\ d \in DOMAIN ratings.drivers
                  /\ ratings.drivers[d].rating_count = Cardinality(rated)
                  /\ ratings.drivers[d].rating_sum =
                        SumOfField(orders, rated, "rating_food")
                  /\ ratings.drivers[d].speed_sum =
                        SumOfField(orders, rated, "rating_speed")
                  /\ ratings.drivers[d].service_sum =
                        SumOfField(orders, rated, "rating_service")

\* Two rated orders of two restaurants, both delivered by dave.
C6_Witness ==
    /\ "dave" \in DOMAIN ratings.drivers
    /\ ratings.drivers["dave"].rating_count = 2
    /\ ratings.drivers["dave"].speed_sum = 6
    /\ DOMAIN ratings.restaurants = {"Pizza Place", "Sushi Bar"}

RECURSIVE SumOfCounts(_, _)
SumOfCounts(aggs, names) ==
    IF names = {} THEN 0
    ELSE LET n == CHOOSE x \in names : TRUE
         IN aggs[n].rating_count + SumOfCounts(aggs, names \ {n})

\* C8: in every persisted state the rating store holds the contribution of
\* exactly the ratings the persisted orders carry: the restaurant aggregates
\* count as many ratings as there are rated orders, and so do the driver
\* aggregates.
C8_RatingSavedAtomically ==
    /\ SumOfCounts(ratings.restaurants, DOMAIN ratings.restaurants) =
          Cardinality(RatedOrders(orders))
    /\ SumOfCounts(ratings.drivers, DOMAIN ratings.drivers) =
          Cardinality(RatedOrders(orders))

\* C9: completing an order that is claimed by the completing driver changes
\* its status to completed and nothing else; completing any other order
\* (pending, completed, or claimed by another driver) changes neither store;
\* and an order becomes completed in no other way.
C9_CompleteOwnClaimedOnly ==
    [][\A oid \in DOMAIN orders :
        LET own == /\ orders[oid].status = "claimed"
                   /\ orders[oid].driver = Some(username)
        IN /\ (CompleteOrder(oid) /\ own) =>
                 /\ orders' = [orders EXCEPT ![oid].status = "completed"]
                 /\ UNCHANGED ratings_file
           /\ (CompleteOrder(oid) /\ ~own) =>
                 UNCHANGED <<orders_file, ratings_file>>
           /\ oid \in DOMAIN orders'
           /\ (/\ orders[oid].status # "completed"
               /\ orders'[oid].status = "completed") =>
                 /\ OnDriverPage
                 /\ own
                 /\ orders' = [orders EXCEPT ![oid].status = "completed"]]_vars

\* A driver who completed one order faces an order claimed by the other.
C9_Witness ==
    /\ OnDriverPage
    /\ \E oid \in DOMAIN orders :
          /\ orders[oid].status = "completed"
          /\ orders[oid].driver = Some(username)
    /\ \E oid \in DOMAIN orders :
          /\ orders[oid].status = "claimed"
          /\ orders[oid].driver # Some(username)


(***************************************************************************)
(* C11: "Place Order" with an empty drop-off location changes nothing: no  *)
(* order is created, the files stay as they are, and the cart keeps all    *)
(* its lines and quantities (the form stays open on the same step).        *)
(***************************************************************************)
C11_EmptyDropoffChangesNothing ==
    [][PlaceOrder("", "Cash", DefaultTip) =>
            /\ UNCHANGED <<users_file, orders_file, ratings_file>>
            /\ UNCHANGED <<cart, step>>
            /\ UNCHANGED <<logged_in, username, role>>]_vars

\* A checkout form open on a cart of two lines, one of them of two units,
\* with orders already in the file.
C11_Witness ==
    /\ OnCustomerPage
    /\ step = 2
    /\ Len(cart) = 2
    /\ \E i \in 1..Len(cart) : cart[i].quantity = 2
    /\ NumOrders > 0
    /\ ENABLED PlaceOrder("", "Cash", DefaultTip)


\* The lines of the cart for one selection of the menu.
LinesOf(sel) ==
    {i \in 1..Len(cart) :
        cart[i].restaurant = sel[1] /\ cart[i].food = sel[3]}

(***************************************************************************)
(* C12: the cart never holds two lines of the same restaurant and food;    *)
(* and a cart built by "Add to Cart" calls alone holds exactly one line    *)
(* for each selection added, with as many units as calls for it, and no    *)
(* line for a selection never added.                                       *)
(***************************************************************************)
C12_OneLinePerPair ==
    /\ \A i, j \in 1..Len(cart) :
            (cart[i].restaurant = cart[j].restaurant
                /\ cart[i].food = cart[j].food) => i = j
    /\ ~calls.other =>
            \A sel \in Menu :
                IF calls.adds[sel] = 0 THEN LinesOf(sel) = {}
                ELSE /\ Cardinality(LinesOf(sel)) = 1
                     /\ \A i \in LinesOf(sel) :
                            cart[i].quantity = calls.adds[sel]

\* Two foods of the same restaurant added in turn, one of them twice.
C12_Witness ==
    /\ ~calls.other
    /\ calls.adds[<<"Pizza Place", "Pizza", "Margherita">>] = 2
    /\ calls.adds[<<"Pizza Place", "Sides", "Garlic Bread">>] = 1
    /\ Len(cart) = 2

\* Some line of the cart has no line of the same restaurant and food in the
\* next cart.
LineLeaves ==
    \E i \in 1..Len(cart) :
        \A j \in 1..Len(cart') :
            cart'[j].restaurant # cart[i].restaurant
                \/ cart'[j].food # cart[i].food

(***************************************************************************)
(* C13: every cart line always has at least one unit; "-" on a line of one *)
(* unit leaves the cart as it is; "-" and "+" otherwise change only the    *)
(* units of their line, by exactly one; and a line leaves the cart only by *)
(* "Remove" or by a checkout that went through.                            *)
(***************************************************************************)
C13_QuantitiesStayPositive ==
    /\ [](\A i \in 1..Len(cart) : cart[i].quantity >= 1)
    /\ [][/\ \A idx \in 1..MaxCart :
                Minus(idx) =>
                    IF cart[idx].quantity = 1 THEN cart' = cart
                    ELSE cart' = [cart EXCEPT ![idx].quantity = @ - 1]
          /\ \A idx \in 1..MaxCart :
                Plus(idx) => cart' = [cart EXCEPT ![idx].quantity = @ + 1]
          /\ LineLeaves => \/ \E idx \in 1..MaxCart : Remove(idx)
                           \/ IsCheckout]_vars

\* Two lines of one unit each, after "-" was pressed: pressing it on either
\* is the case where nothing may change.
C13_Witness ==
    /\ OnCustomerPage
    /\ step = 1
    /\ calls.other
    /\ Len(cart) = 2
    /\ \A i \in 1..Len(cart) : cart[i].quantity = 1
    /\ ENABLED Minus(2)

\* The sum of price times quantity over the lines, taken line by line from
\* the last one.
RECURSIVE SumOfLines(_, _)
SumOfLines(c, n) ==
    IF n = 0 THEN 0 ELSE SumOfLines(c, n - 1) + c[n].quantity * c[n].price

(***************************************************************************)
(* C14: the totals under the cart are exact: the subtotal is the sum of    *)
(* price times quantity over the lines, the service tax 10% of it, the     *)
(* delivery charge 6% of it, and the total the sum of the three; and the   *)
(* button that stores the total changes neither the cart nor the files.    *)
(***************************************************************************)
C14_TotalsExact ==
    /\ [](LET t == computeTotals(cart)
          IN /\ t.subtotal = SumOfLines(cart, Len(cart))
             /\ 100 * t.service_tax = 10 * t.subtotal
             /\ 100 * t.delivery_charge = 6 * t.subtotal
             /\ t.total = t.subtotal + t.service_tax + t.delivery_charge)
    /\ [][ProceedToCheckout =>
            UNCHANGED <<cart, users_file, orders_file, ratings_file>>]_vars

\* The totals of two Margheritas and a Green Tea, stored by "Proceed to
\* Checkout": RM 27.00, 2.70, 1.62, 31.32.
C14_Witness ==
    /\ step = 2
    /\ Len(cart) = 2
    /\ computeTotals(cart) =
            [subtotal |-> 2700, service_tax |-> 270,
             delivery_charge |-> 162, total |-> 3132]


\* A sum of count ratings, each between MinRating and MaxRating.
SumInRange(sum, count) ==
    count * MinRating <= sum /\ sum <= count * MaxRating

\* A quotient with a denominator of at least 1 and a value in the range.
AverageInRange(q) == q.den >= 1 /\ SumInRange(q.num, q.den)

Drivers == {u \in DOMAIN RegisteredUsers : RegisteredUsers[u].role = "Driver"}

(***************************************************************************)
(* C17: no average is ever taken over a count of zero.  Every aggregate in *)
(* the rating store has a count of at least 1 and each of its sums between *)
(* the count and five times the count, so every average shown lies between *)
(* 1 and 5; and a restaurant or driver without an aggregate shows none.    *)
(***************************************************************************)
C17_AveragesDefined ==
    /\ \A r \in DOMAIN ratings.restaurants :
            /\ ratings.restaurants[r].rating_count >= 1
            /\ SumInRange(ratings.restaurants[r].rating_sum,
                          ratings.restaurants[r].rating_count)
    /\ \A d \in DOMAIN ratings.drivers :
            /\ ratings.drivers[d].rating_count >= 1
            /\ SumInRange(ratings.drivers[d].rating_sum,
                          ratings.drivers[d].rating_count)
            /\ SumInRange(ratings.drivers[d].speed_sum,
                          ratings.drivers[d].rating_count)
            /\ SumInRange(ratings.drivers[d].service_sum,
                          ratings.drivers[d].rating_count)
    /\ \A r \in DOMAIN restaurants :
            LET shown == RestaurantAverage(ratings, r)
            IN IF r \in DOMAIN ratings.restaurants
               THEN shown # None /\ AverageInRange(shown[1])
               ELSE shown = None
    /\ \A d \in Drivers :
            LET shown == DriverAverages(ratings, d)
            IN IF d \in DOMAIN ratings.drivers
               THEN /\ shown # None
                    /\ AverageInRange(shown[1].avg_food)
                    /\ AverageInRange(shown[1].avg_speed)
                    /\ AverageInRange(shown[1].avg_service)
               ELSE shown = None

\* One restaurant rated twice, the other never; one driver rated, the other
\* never.
C17_Witness ==
    /\ \E r \in DOMAIN ratings.restaurants :
            ratings.restaurants[r].rating_count = 2
    /\ \E r \in DOMAIN restaurants : RestaurantAverage(ratings, r) = None
    /\ \E d \in Drivers : DriverAverages(ratings, d) # None
    /\ \E d \in Drivers : DriverAverages(ratings, d) = None


(***************************************************************************)
(* C15: order ids are never reused or removed: every order file the        *)
(* program has written still holds, under its id, each order a checkout    *)
(* ever saved, for the same customer and line; also after a load that      *)
(* found orders.json absent or unparseable and went on with an empty       *)
(* store.                                                                  *)
(***************************************************************************)
C15_IdsNeverReusedOrRemoved ==
    orders_file.kind = "valid" =>
        \A k \in DOMAIN issued :
            k \in DOMAIN orders /\ LineOf(orders[k]) = issued[k]

(***************************************************************************)
(* C16: loading a file that is absent or whose content is invalid yields   *)
(* an empty store and never raises; the rating store then has its two      *)
(* maps.                                                                   *)
(***************************************************************************)
C16_LoadNeverRaises ==
    /\ \A file \in {users_file, orders_file, ratings_file} :
            file.kind # "valid" =>
                ~load_raises(file) /\ load_data(file) = EmptyDict
    /\ DOMAIN ratings = {"restaurants", "drivers"}


\* What the handler of a finished run did is in the files.
EffectPersisted(r) ==
    LET b == r.button
    IN CASE b.kind = "place" ->
                \A k \in r.ids :
                    k \in DOMAIN orders /\ LineOf(orders[k]) = LineOf(r.orders[k])
         [] b.kind = "rate" ->
                /\ orders[b.oid].rating_food = Some(b.rating[1])
                /\ orders[b.oid].restaurant \in DOMAIN ratings.restaurants
         [] b.kind = "complete" -> orders[b.oid].status = "completed"
         [] b.kind = "claim" -> orders[b.oid].driver = Some(r.who)

(***************************************************************************)
(* C18: the updates of the shared files are serializable: however the runs *)
(* of two sessions interleave, the files hold the effect of every run that *)
(* saved (no order, status change or rating is lost), and two checkouts    *)
(* never take the same order id.                                           *)
(***************************************************************************)
C18_NoLostUpdate ==
    /\ \A p \in Sessions :
            (runs[p].pc = "done" /\ runs[p].wrote) => EffectPersisted(runs[p])
    /\ \A p, q \in Sessions :
            (p # q /\ runs[p].pc = "done" /\ runs[q].pc = "done") =>
                runs[p].ids \cap runs[q].ids = {}

(***************************************************************************)
(* C19: an order is claimed by at most one driver, several driver sessions *)
(* or not: no run of a driver's page changes the driver saved on an order  *)
(* to another driver, or takes a completed order back to claimed.          *)
(***************************************************************************)
C19_OneDriverPerOrder ==
    [][\A p \in Sessions :
            (FinishRun(p) /\ RegisteredUsers[runs[p].who].role = "Driver") =>
                \A oid \in DOMAIN orders :
                    /\ orders[oid].driver # None =>
                            /\ oid \in DOMAIN orders'
                            /\ orders'[oid].driver = orders[oid].driver
                    /\ orders[oid].status = "completed" =>
                            /\ oid \in DOMAIN orders'
                            /\ orders'[oid].status = "completed"]_vars


(***************************************************************************)
(* C20: a cart belongs to the customer who built it: in one browser        *)
(* session, the customer on the page is the one user who added to each     *)
(* line of the cart (no cart or open checkout form is carried over to the  *)
(* next user), and every checkout places the orders of lines its own       *)
(* customer added.                                                         *)
(***************************************************************************)
C20_CartBelongsToItsCustomer ==
    /\ [](OnCustomerPage =>
            /\ \A i \in 1..Len(cart) : adders[i] = {username}
            /\ (step = 2 => cart # <<>>))
    /\ [][IsCheckout =>
            \A k \in DOMAIN orders' \ DOMAIN orders :
                \E i \in 1..Len(cart) :
                    /\ orders'[k].food = cart[i].food
                    /\ adders[i] = {orders'[k].customer}]_vars

====
